---- MODULE Spec2Model ----
(***************************************************************************)
(* A model of the book review graph engine: Graph / WeightedGraph          *)
(* (part1.py, recommendations.py), the similarity scores, recommend_books, *)
(* the review score predictors (predictions.py) and the agglomerative      *)
(* clustering (part3.py).                                                  *)
(*                                                                         *)
(* Conventions.                                                            *)
(*  - An item key is a natural number; the order of the numbers stands for *)
(*    Python's order of the keys (str comparison of titles).               *)
(*  - A vertex object is identified with its item: add_vertex never        *)
(*    replaces a vertex, so item and vertex object are in bijection.       *)
(*  - self._vertices, a dict, is the sequence of its vertex records in     *)
(*    insertion order (the order a dict iterates in).                      *)
(*  - neighbours is a mapping neighbour -> weight.  The set of the         *)
(*    unweighted _Vertex is held as the mapping whose values are Member.   *)
(*  - A float similarity score n / d is the pair <<n, d>> with d > 0;      *)
(*    scores are compared by cross multiplication.                         *)
(*  - A call's outcome is a record [raised, value]: raised is "none" or    *)
(*    the name of the exception that propagates to the caller.             *)
(***************************************************************************)
EXTENDS Integers, Sequences, FiniteSets, TLC

\* ---------------------------------------------------------------- bounds
NumItems == 3
MaxWeight == 2
MaxEdges == 3
MaxLimit == 3

Items == 1..NumItems
Kinds == {"user", "book"}
Weights == 1..MaxWeight
Limits == 0..MaxLimit
GraphTypes == {"Graph", "WeightedGraph"}
ScoreTypes == {"unweighted", "strict"}

\* The value held for a member of a _Vertex.neighbours set, and the default
\* weight of WeightedGraph.add_edge.
Member == 1

VARIABLES graphType, vertices, ret, clustering
vars == <<graphType, vertices, ret, clustering>>

\* ------------------------------------------------------------- outcomes
\* The record of a call: the operation, its arguments and its outcome.
Call(op, a1, a2, a3, out) ==
    [op |-> op, a1 |-> a1, a2 |-> a2, a3 |-> a3,
     raised |-> out.raised, value |-> out.value]

Returned(v) == [raised |-> "none", value |-> v]
Raised(e) == [raised |-> e, value |-> 0]

\* ------------------------------------------------------------ dict helpers
EmptyMap == [x \in {} |-> 0]

Put(m, k, v) == [x \in (DOMAIN m) \cup {k} |-> IF x = k THEN v ELSE m[x]]

\* item in self._vertices
HasVertex(vs, item) == \E i \in 1..Len(vs) : vs[i].item = item

\* self._vertices[item]
VertexOf(vs, item) == vs[CHOOSE i \in 1..Len(vs) : vs[i].item = item]

AllItems(vs) == {vs[i].item : i \in 1..Len(vs)}

\* _Vertex.__init__ / _WeightedVertex.__init__
NewVertex(item, kind) == [item |-> item, kind |-> kind, neighbours |-> EmptyMap]

\* v.neighbours[n] = w (WeightedGraph), v.neighbours.add(n) (Graph, w = Member)
SetNeighbour(vs, item, n, w) ==
    [i \in 1..Len(vs) |->
        IF vs[i].item = item
        THEN [vs[i] EXCEPT !.neighbours = Put(vs[i].neighbours, n, w)]
        ELSE vs[i]]

\* degree()
Degree(v) == Cardinality(DOMAIN v.neighbours)

\* ------------------------------------------------------------ Graph core
\* A variant of add_edge's stores that omits the mirrored one.
AddEdgeOneWay(vs, item1, item2, w) == SetNeighbour(vs, item1, item2, w)

\* The two stores of add_edge, in the order the code makes them.

add_edge_store(vs, item1, item2, w) ==
    SetNeighbour(SetNeighbour(vs, item1, item2, w), item2, item1, w)

\* The number of edges held: each once, from its endpoint of smaller key.
EdgeCount(vs) ==
    Cardinality(UNION {{<<vs[i].item, b>> :
                           b \in {c \in DOMAIN vs[i].neighbours : vs[i].item <= c}} :
                       i \in 1..Len(vs)})

\* The locals of find_clusters_random / find_clusters_greedy: the clusters
\* list, the iterations the for loop has left and the merges it has made.
\* No clustering has been called yet.
NoClustering ==
    [num_clusters |-> 0, clusters |-> <<>>, left |-> 0, merges |-> 0]

Init ==
    /\ graphType \in GraphTypes
    /\ vertices = <<>>
    /\ ret = Call("init", 0, 0, 0, Returned(0))
    /\ clustering = NoClustering

\* The graph is built by a loader's add_vertex and add_edge calls and then
\* queried.  A query leaves the graph as it is, so a behaviour is a sequence
\* of loader calls followed by one query: ret holds that last call.
Loading == ret.op \in {"init", "add_vertex", "add_edge"}

\* Graph.add_vertex / WeightedGraph.add_vertex
AddVertex(item, kind) ==
    /\ Loading
    /\ vertices' = IF HasVertex(vertices, item)
                   THEN vertices
                   ELSE Append(vertices, NewVertex(item, kind))
    /\ ret' = Call("add_vertex", 0, 0, 0, Returned(0))
    /\ UNCHANGED <<graphType, clustering>>

\* Graph.add_edge / WeightedGraph.add_edge.  Graph.add_edge takes no weight.
AddEdge(item1, item2, weight) ==
    /\ Loading
    /\ graphType = "Graph" => weight = Member
    /\ IF HasVertex(vertices, item1) /\ HasVertex(vertices, item2)
       THEN /\ \/ item2 \in DOMAIN VertexOf(vertices, item1).neighbours
               \/ EdgeCount(vertices) < MaxEdges
            /\ vertices' = add_edge_store(vertices, item1, item2, weight)
            /\ ret' = Call("add_edge", 0, 0, 0, Returned(0))
       ELSE /\ vertices' = vertices
            /\ ret' = Call("add_edge", 0, 0, 0, Raised("ValueError"))
    /\ UNCHANGED <<graphType, clustering>>

\* The calls of a loader, with any key of any kind in any order.
Build ==
    \/ \E item \in Items, kind \in Kinds : AddVertex(item, kind)
    \/ \E item1 \in Items, item2 \in Items, weight \in Weights :
           AddEdge(item1, item2, weight)

\* add_edge, get_similarity_score and the predictors find a vertex by its key
\* and never read its kind or its place in _vertices.  The specifications of
\* these operations take the loader's add_vertex calls with the keys in
\* ascending order (a repeated call included), odd keys being users and even
\* keys books; add_edge keeps every pair of keys, in any order.
KindOf(item) == IF item % 2 = 1 THEN "user" ELSE "book"

InKeyOrder(item) == \A i \in 1..Len(vertices) : vertices[i].item <= item

BuildInKeyOrder ==
    \/ \E item \in Items : InKeyOrder(item) /\ AddVertex(item, KindOf(item))
    \/ \E item1 \in Items, item2 \in Items, weight \in Weights :
           AddEdge(item1, item2, weight)

NextGraph == BuildInKeyOrder

SpecGraph == Init /\ [][NextGraph]_vars

\* C5: after any sequence of add_vertex and add_edge calls, whenever A holds
\* B as a neighbour with weight w, B is a vertex of the same graph and holds
\* A as a neighbour with the same weight w.
MirroredAndClosed ==
    \A i \in 1..Len(vertices) :
        \A b \in DOMAIN vertices[i].neighbours :
            /\ HasVertex(vertices, b)
            /\ vertices[i].item \in DOMAIN VertexOf(vertices, b).neighbours
            /\ VertexOf(vertices, b).neighbours[vertices[i].item]
                   = vertices[i].neighbours[b]

\* A weighted graph after a successful add_edge, holding edges of both
\* weights between distinct vertices.
MirroredWitness ==
    /\ graphType = "WeightedGraph"
    /\ ret.op = "add_edge" /\ ret.raised = "none"
    /\ \E i, j \in 1..Len(vertices) :
          /\ i # j
          /\ vertices[j].item \in DOMAIN vertices[i].neighbours
          /\ vertices[i].neighbours[vertices[j].item] = 2
    /\ \E i, j \in 1..Len(vertices) :
          /\ i # j
          /\ vertices[j].item \in DOMAIN vertices[i].neighbours
          /\ vertices[i].neighbours[vertices[j].item] = 1

\* C6: after any sequence of add_vertex and add_edge calls, no vertex holds
\* itself as a neighbour.
NoSelfLoop ==
    \A i \in 1..Len(vertices) :
        vertices[i].item \notin DOMAIN vertices[i].neighbours

\* ------------------------------------------------------ Similarity engine
\* Float comparison of the scores n1/d1 and n2/d2 (d1, d2 > 0).  Division of
\* two small integers is correctly rounded, so equal floats are equal
\* fractions.
ScoreGT(s1, s2) == s1[1] * s2[2] > s2[1] * s1[2]
ScoreEQ(s1, s2) == s1[1] * s2[2] = s2[1] * s1[2]
Zero == <<0, 1>>

\* _Vertex.similarity_score
similarity_score(self, other) ==
    IF Degree(self) = 0 \/ Degree(other) = 0
    THEN Zero
    ELSE LET n == DOMAIN self.neighbours
             o == DOMAIN other.neighbours
         IN  <<Cardinality(n \cap o), Cardinality(n \cup o)>>

\* _WeightedVertex.similarity_score_unweighted
similarity_score_unweighted(self, other) ==
    IF Degree(self) = 0 \/ Degree(other) = 0
    THEN Zero
    ELSE LET n == DOMAIN self.neighbours
             o == DOMAIN other.neighbours
         IN  <<Cardinality(n \cap o), Cardinality(n \cup o)>>

\* A variant of the strict score that divides by this vertex's own degree.
StrictOverOwnDegree(vs, self, other) ==
    IF Degree(self) = 0 \/ Degree(other) = 0
    THEN Zero
    ELSE LET n == DOMAIN self.neighbours
             o == DOMAIN other.neighbours
             no == n \cap o
         IN  <<Cardinality({z \in no :
                   VertexOf(vs, z).neighbours[self.item]
                       = VertexOf(vs, z).neighbours[other.item]}),
               Cardinality(n)>>

\* _WeightedVertex.similarity_score_strict; z.neighbours is read through the
\* graph vs that holds the vertex z.
similarity_score_strict(vs, self, other) ==
    IF Degree(self) = 0 \/ Degree(other) = 0
    THEN Zero
    ELSE LET n == DOMAIN self.neighbours
             o == DOMAIN other.neighbours
             no == n \cap o
         IN  <<Cardinality({z \in no :
                   VertexOf(vs, z).neighbours[self.item]
                       = VertexOf(vs, z).neighbours[other.item]}),
               Cardinality(n \cup o)>>

\* The score method a graph of type gt calls for score_type st.
VertexScore(vs, gt, st, self, other) ==
    IF gt = "Graph" THEN similarity_score(self, other)
    ELSE IF st = "unweighted" THEN similarity_score_unweighted(self, other)
    ELSE similarity_score_strict(vs, self, other)

\* Graph.get_similarity_score / WeightedGraph.get_similarity_score
get_similarity_score(vs, gt, item1, item2, st) ==
    IF item1 \notin AllItems(vs) \/ item2 \notin AllItems(vs)
    THEN Raised("ValueError")
    ELSE Returned(VertexScore(vs, gt, st, VertexOf(vs, item1), VertexOf(vs, item2)))

\* Graph.get_similarity_score has no score_type parameter.
GetSimilarityScore(item1, item2, st) ==
    /\ Loading
    /\ graphType = "Graph" => st = "unweighted"
    /\ ret' = Call("get_similarity_score", item1, item2, st,
                   get_similarity_score(vertices, graphType, item1, item2, st))
    /\ UNCHANGED <<graphType, vertices, clustering>>

NextSimilarity ==
    \/ BuildInKeyOrder
    \/ \E item1 \in Items, item2 \in Items, st \in ScoreTypes :
           GetSimilarityScore(item1, item2, st)

SpecSimilarity == Init /\ [][NextSimilarity]_vars

\* C7: get_similarity_score(a, b, mode) equals get_similarity_score(b, a, mode)
\* for every pair of items present in the graph, in every mode.
SimilaritySymmetric ==
    (ret.op = "get_similarity_score" /\ ret.raised = "none") =>
        LET rev == get_similarity_score(vertices, graphType, ret.a2, ret.a1, ret.a3)
        IN  /\ rev.raised = "none"
            /\ ScoreEQ(ret.value, rev.value)

\* A strict score strictly between 0 and 1 of two distinct vertices of
\* different degree.
SimilarityWitness ==
    /\ ret.op = "get_similarity_score" /\ ret.raised = "none"
    /\ graphType = "WeightedGraph" /\ ret.a3 = "strict"
    /\ ret.a1 # ret.a2
    /\ 0 < ret.value[1] /\ ret.value[1] < ret.value[2]
    /\ Degree(VertexOf(vertices, ret.a1)) # Degree(VertexOf(vertices, ret.a2))

\* --------------------------------------------------- Recommendation ranker
Swap(pos, i, j) ==
    [k \in 1..Len(pos) |-> IF k = i THEN pos[j] ELSE IF k = j THEN pos[i] ELSE pos[k]]

Min(a, b) == IF a <= b THEN a ELSE b

\* A variant of the loop body that leaves books of equal score where they are.
SortStepNoTieBreak(vs, gt, st, q, pos, i, j) ==
    LET si == VertexScore(vs, gt, st, pos[i], q)
        sj == VertexScore(vs, gt, st, pos[j], q)
    IN  IF i > j /\ ScoreGT(si, sj) THEN Swap(pos, i, j) ELSE pos

\* The body of the nested loops of recommend_books at (i, j); q is
\* self._vertices[book].
SortStep(vs, gt, st, q, pos, i, j) ==
    LET si == VertexScore(vs, gt, st, pos[i], q)
        sj == VertexScore(vs, gt, st, pos[j], q)
    IN  IF i > j /\ ScoreGT(si, sj)
        THEN Swap(pos, i, j)
        ELSE IF i > j /\ ScoreEQ(si, sj) /\ pos[i].item > pos[j].item
        THEN Swap(pos, i, j)
        ELSE pos

\* for i in range(0, len(pos_books)): for j in range(0, len(pos_books)): ...
\* (indices from 1 here).
RECURSIVE SortLoop(_, _, _, _, _, _, _)
SortLoop(vs, gt, st, q, pos, i, j) ==
    IF i > Len(pos) THEN pos
    ELSE IF j > Len(pos) THEN SortLoop(vs, gt, st, q, pos, i + 1, 1)
    ELSE SortLoop(vs, gt, st, q, SortStep(vs, gt, st, q, pos, i, j), i, j + 1)

\* An element of the returned list: the vertex object, or its item (title).
AsVertex(v) == [ref |-> "vertex", item |-> v.item]
AsTitle(v) == [ref |-> "title", item |-> v.item]

\* Graph.recommend_books / WeightedGraph.recommend_books.  self._vertices[book]
\* is first evaluated when a book vertex is compared or filtered: it raises
\* KeyError when book is absent and the graph holds a book.
recommend_books(vs, gt, book, limit, st) ==
    LET IsBook(v) == v.kind = "book"
        pos0 == SelectSeq(vs, IsBook)
    IN  IF Len(pos0) >= 1 /\ ~HasVertex(vs, book)
        THEN Raised("KeyError")
        ELSE IF Len(pos0) = 0
        THEN Returned(<<>>)
        ELSE LET q == VertexOf(vs, book)
                 sorted == SortLoop(vs, gt, st, q, pos0, 1, 1)
                 NonZero(v) == VertexScore(vs, gt, st, v, q)[1] # 0
                 pos == SelectSeq(sorted, NonZero)
             IN  IF Len(pos) >= limit
                 THEN Returned([k \in 1..Min(limit + 1, Len(pos)) |-> AsTitle(pos[k])])
                 ELSE Returned([k \in 1..Len(pos) |-> AsVertex(pos[k])])

\* Graph.recommend_books has no score_type parameter.
RecommendBooks(book, limit, st) ==
    /\ Loading
    /\ graphType = "Graph" => st = "unweighted"
    /\ ret' = Call("recommend_books", book, limit, st,
                   recommend_books(vertices, graphType, book, limit, st))
    /\ UNCHANGED <<graphType, vertices, clustering>>

NextRecommend ==
    \/ Build
    \/ \E book \in Items, limit \in Limits, st \in ScoreTypes :
           RecommendBooks(book, limit, st)

SpecRecommend == Init /\ [][NextRecommend]_vars

\* The last call was recommend_books(ret.a1, ret.a2[, ret.a3]) on a book
\* vertex of the graph, and it returned a list.
Recommended ==
    /\ ret.op = "recommend_books" /\ ret.raised = "none"
    /\ HasVertex(vertices, ret.a1)
    /\ VertexOf(vertices, ret.a1).kind = "book"

\* The same on a graph that holds no self-loop, as the data model has it: what
\* is refuted on such a graph does not rest on add_edge(x, x).
RecommendedOnSimpleGraph == Recommended /\ NoSelfLoop

\* The similarity score of item x to the query book of the last call.
ScoreToQuery(x) ==
    VertexScore(vertices, graphType, ret.a3,
                VertexOf(vertices, x), VertexOf(vertices, ret.a1))

\* The books other than the query book whose score to it is not 0.
NonZeroCandidates ==
    {x \in AllItems(vertices) \ {ret.a1} :
        VertexOf(vertices, x).kind = "book" /\ ScoreToQuery(x)[1] # 0}

\* C1: the list returned by recommend_books(b, limit[, score_type]) never
\* contains the query book b itself.
RecommendExcludesQuery ==
    RecommendedOnSimpleGraph => \A k \in 1..Len(ret.value) : ret.value[k].item # ret.a1

\* C2: recommend_books(b, limit[, score_type]) returns at most limit entries.
RecommendAtMostLimit ==
    RecommendedOnSimpleGraph => Len(ret.value) <= ret.a2

ShortListIsAllTitles ==
    (RecommendedOnSimpleGraph /\ Cardinality(NonZeroCandidates) < ret.a2) =>
        /\ \A k \in 1..Len(ret.value) : ret.value[k].ref = "title"
        /\ {ret.value[k].item : k \in 1..Len(ret.value)} \ {ret.a1}
               = NonZeroCandidates

\* ------------------------------------------------- Prediction strategies
\* Graph.adjacent (inherited by WeightedGraph)
adjacent(vs, item1, item2) ==
    IF HasVertex(vs, item1) /\ HasVertex(vs, item2)
    THEN \E n \in DOMAIN VertexOf(vs, item1).neighbours : n = item2
    ELSE FALSE

\* Graph.get_neighbours
get_neighbours(vs, item) ==
    IF HasVertex(vs, item)
    THEN Returned(DOMAIN VertexOf(vs, item).neighbours)
    ELSE Raised("ValueError")

\* A variant of get_weight that reads the edge as a unit edge.
GetWeightUnit(vs, item1, item2) ==
    IF ~HasVertex(vs, item1) \/ ~HasVertex(vs, item2)
    THEN Raised("KeyError")
    ELSE Returned(IF item2 \in DOMAIN VertexOf(vs, item1).neighbours
                  THEN Member ELSE 0)

\* WeightedGraph.get_weight; self._vertices[item] raises KeyError for an
\* absent item.
get_weight(vs, item1, item2) ==
    IF ~HasVertex(vs, item1) \/ ~HasVertex(vs, item2)
    THEN Raised("KeyError")
    ELSE LET v1 == VertexOf(vs, item1)
         IN  Returned(IF item2 \in DOMAIN v1.neighbours
                      THEN v1.neighbours[item2] ELSE 0)

\* sum(m.values()) of a neighbours mapping
RECURSIVE SumValues(_)
SumValues(m) ==
    IF DOMAIN m = {} THEN 0
    ELSE LET k == CHOOSE x \in DOMAIN m : TRUE
         IN  m[k] + SumValues([x \in (DOMAIN m) \ {k} |-> m[x]])

\* WeightedGraph.average_weight: the float sum / len as the pair <<sum, len>>;
\* the division raises ZeroDivisionError when the vertex has no neighbour.
average_weight(vs, item) ==
    IF HasVertex(vs, item)
    THEN LET v == VertexOf(vs, item)
         IN  IF Degree(v) = 0
             THEN Raised("ZeroDivisionError")
             ELSE Returned(<<SumValues(v.neighbours), Degree(v)>>)
    ELSE Raised("ValueError")

\* round(n / d) of Python 3 for n >= 0, d > 0: to the nearest integer, a half
\* to the even one.
Round(n, d) ==
    LET q == n \div d
        r == n % d
    IN  IF 2 * r < d THEN q
        ELSE IF 2 * r > d THEN q + 1
        ELSE IF q % 2 = 0 THEN q ELSE q + 1

\* return round(self.graph.average_weight(book))
RoundedAverage(vs, book) ==
    LET a == average_weight(vs, book)
    IN  IF a.raised # "none" THEN a ELSE Returned(Round(a.value[1], a.value[2]))

\* FiveStarPredictor.predict_review_score
FiveStarPredict(vs, user, book) ==
    IF adjacent(vs, user, book)
    THEN get_weight(vs, user, book)
    ELSE Returned(5)

\* BookAverageScorePredictor.predict_review_score
BookAveragePredict(vs, user, book) ==
    IF adjacent(vs, user, book)
    THEN get_weight(vs, user, book)
    ELSE RoundedAverage(vs, book)

\* The product of the denominators of the scores of the reviewers in S to
\* user: a common denominator of the two sums below.
RECURSIVE CommonDen(_, _, _, _)
CommonDen(vs, st, user, S) ==
    IF S = {} THEN 1
    ELSE LET x == CHOOSE y \in S : TRUE
         IN  get_similarity_score(vs, "WeightedGraph", x, user, st).value[2]
                 * CommonDen(vs, st, user, S \ {x})

\* A variant of the two sums that leaves the weights out of the first.
RECURSIVE SimilaritySums(_, _, _, _, _, _)
SimilaritySums(vs, st, user, book, S, D) ==
    IF S = {} THEN <<0, 0>>
    ELSE LET x == CHOOSE y \in S : TRUE
             sc == get_similarity_score(vs, "WeightedGraph", x, user, st).value
             rest == SimilaritySums(vs, st, user, book, S \ {x}, D)
             term == sc[1] * (D \div sc[2])
         IN  <<term + rest[1], term + rest[2]>>

\* sum([get_weight(x, book) * get_similarity_score(x, user) for x in S]) and
\* sum([get_similarity_score(x, user) for x in S]), both over the common
\* denominator D: the pair <<numerator * D, denominator * D>>.
RECURSIVE WeightedSums(_, _, _, _, _, _)
WeightedSums(vs, st, user, book, S, D) ==
    IF S = {} THEN <<0, 0>>
    ELSE LET x == CHOOSE y \in S : TRUE
             sc == get_similarity_score(vs, "WeightedGraph", x, user, st).value
             w == get_weight(vs, x, book).value
             rest == WeightedSums(vs, st, user, book, S \ {x}, D)
             term == sc[1] * (D \div sc[2])
         IN  <<w * term + rest[1], term + rest[2]>>

\* SimilarUserPredictor.predict_review_score with self._score_type = st.  The
\* sums are exact fractions here; the code adds and divides floats.
SimilarUserPredict(vs, st, user, book) ==
    IF adjacent(vs, user, book)
    THEN get_weight(vs, user, book)
    ELSE LET prev == get_neighbours(vs, book)
         IN  IF prev.raised # "none" THEN prev
             ELSE IF prev.value # {} /\ ~HasVertex(vs, user)
             THEN Raised("ValueError")
             ELSE LET D == CommonDen(vs, st, user, prev.value)
                      sums == WeightedSums(vs, st, user, book, prev.value, D)
                      return_val == IF sums[2] > 0
                                    THEN Round(sums[1], sums[2])
                                    ELSE 0
                  IN  IF return_val = 0
                      THEN RoundedAverage(vs, book)
                      ELSE Returned(return_val)

\* The concrete strategies: the class and, for SimilarUserPredictor, its
\* _score_type.
Predictors ==
    {<<"FiveStarPredictor", "">>, <<"BookAverageScorePredictor", "">>}
        \cup {<<"SimilarUserPredictor", st>> : st \in ScoreTypes}

predict_review_score(vs, p, user, book) ==
    IF p[1] = "FiveStarPredictor" THEN FiveStarPredict(vs, user, book)
    ELSE IF p[1] = "BookAverageScorePredictor" THEN BookAveragePredict(vs, user, book)
    ELSE SimilarUserPredict(vs, p[2], user, book)

\* A predictor is bound to a WeightedGraph when it is constructed.
Predict(p, user, book) ==
    /\ Loading
    /\ graphType = "WeightedGraph"
    /\ ret' = Call("predict_review_score", user, book, p,
                   predict_review_score(vertices, p, user, book))
    /\ UNCHANGED <<graphType, vertices, clustering>>

\* The users and books of a review file: two of each are the least for a
\* prediction from a similar user.
NumReviewItems == 4
ReviewItems == 1..NumReviewItems

\* int(rev) of a row of the review file; nothing keeps a rating above 0.
Ratings == 0..MaxWeight

\* The calls of load_weighted_review_graph: add_vertex(user, 'user'),
\* add_vertex(book, 'book') and add_edge(user, book, int(rev)).
BuildReviewGraph ==
    \/ \E item \in ReviewItems : InKeyOrder(item) /\ AddVertex(item, KindOf(item))
    \/ \E user \in ReviewItems, book \in ReviewItems, w \in Ratings :
           /\ KindOf(user) = "user" /\ KindOf(book) = "book"
           /\ AddEdge(user, book, w)

NextPredict ==
    \/ BuildReviewGraph
    \/ \E p \in Predictors, user \in ReviewItems, book \in ReviewItems :
           /\ KindOf(user) = "user" /\ KindOf(book) = "book"
           /\ Predict(p, user, book)

SpecPredict == Init /\ [][NextPredict]_vars

NoReviewerRaisesValueError ==
    (/\ ret.op = "predict_review_score"
     /\ ret.a3[1] = "BookAverageScorePredictor"
     /\ HasVertex(vertices, ret.a1)
     /\ VertexOf(vertices, ret.a1).kind = "user"
     /\ HasVertex(vertices, ret.a2)
     /\ VertexOf(vertices, ret.a2).kind = "book"
     /\ Degree(VertexOf(vertices, ret.a2)) = 0
     /\ ~adjacent(vertices, ret.a1, ret.a2)) =>
        ret.raised = "ValueError"

\* ---------------------------------------------------------- Clustering
\* The calls create_book_graph makes on the graph it returns: add_vertex(x,
\* 'book') for the books and add_edge(x, y, score) for x != y.  The weights
\* stand for the scores stored, which are positive.
BuildBookGraph ==
    \/ \E item \in Items : InKeyOrder(item) /\ AddVertex(item, "book")
    \/ \E item1 \in AllItems(vertices), item2 \in AllItems(vertices), w \in Weights :
           item1 < item2 /\ AddEdge(item1, item2, w)

\* sum([book_graph.get_weight(x, y) for x in cluster1 for y in cluster2]),
\* P the pairs <<x, y>>
RECURSIVE SumWeights(_, _)
SumWeights(vs, P) ==
    IF P = {} THEN 0
    ELSE LET p == CHOOSE q \in P : TRUE
         IN  get_weight(vs, p[1], p[2]).value + SumWeights(vs, P \ {p})

\* cross_cluster_weight, the float as the pair <<sum, len1 * len2>>
cross_cluster_weight(vs, cluster1, cluster2) ==
    <<SumWeights(vs, cluster1 \X cluster2),
      Cardinality(cluster1) * Cardinality(cluster2)>>

\* best = -1
MinusOne == <<-1, 1>>

\* best_c2 = None; a cluster of the list is named by its index.
None == 0

\* The inner loop of find_clusters_random from index j on: the index of
\* best_c2.  Two clusters of the list are the same object only at the same
\* index.
RECURSIVE BestRandom(_, _, _, _, _, _)
BestRandom(vs, clusters, i, j, best, best_c2) ==
    IF j > Len(clusters) THEN best_c2
    ELSE LET score == cross_cluster_weight(vs, clusters[i], clusters[j])
         IN  IF j # i /\ ScoreGT(score, best)
             THEN BestRandom(vs, clusters, i, j + 1, score, j)
             ELSE BestRandom(vs, clusters, i, j + 1, best, best_c2)

\* The nested loops of find_clusters_greedy from the pair i1, i2 on: the
\* indices <<best_c1, best_c2>>.
RECURSIVE BestGreedy(_, _, _, _, _, _, _)
BestGreedy(vs, clusters, i1, i2, best, best_c1, best_c2) ==
    IF i1 > Len(clusters) THEN <<best_c1, best_c2>>
    ELSE IF i2 > Len(clusters)
    THEN BestGreedy(vs, clusters, i1 + 1, i1 + 2, best, best_c1, best_c2)
    ELSE LET score == cross_cluster_weight(vs, clusters[i1], clusters[i2])
         IN  IF ScoreGT(score, best)
             THEN BestGreedy(vs, clusters, i1, i2 + 1, score, i1, i2)
             ELSE BestGreedy(vs, clusters, i1, i2 + 1, best, best_c1, best_c2)

\* A variant of list.remove that leaves the list as it is.
RemoveNothing(list, x) == list

\* list.remove(x): without the first element equal to x.
remove(list, x) ==
    LET k == CHOOSE n \in 1..Len(list) :
                 list[n] = x /\ \A m \in 1..(n - 1) : list[m] # x
    IN  SubSeq(list, 1, k - 1) \o SubSeq(list, k + 1, Len(list))

\* A variant of the merge that removes c1 without adding it to best_c2.
MergeWithoutUpdate(clusters, c1, best_c2) == remove(clusters, clusters[c1])

\* best_c2.update(c1); clusters.remove(c1)
Merge(clusters, c1, best_c2) ==
    remove([clusters EXCEPT ![best_c2] = clusters[best_c2] \cup clusters[c1]],
           clusters[c1])

\* The orders in which a set can be iterated.
Orders(S) ==
    {f \in [1..Cardinality(S) -> S] : \A i, j \in DOMAIN f : f[i] = f[j] => i = j}

ClusteringOps == {"find_clusters_random", "find_clusters_greedy"}

\* The function has been called and has not returned.
Pending == [raised |-> "pending", value |-> 0]

Max(a, b) == IF a > b THEN a ELSE b

\* The end of an iteration: the next one, or return clusters after the last.
Iterated(clusters) ==
    /\ clustering' = [clustering EXCEPT !.clusters = clusters,
                                        !.left = @ - 1,
                                        !.merges = @ + 1]
    /\ ret' = [ret EXCEPT !.raised = IF clustering.left = 1 THEN "none" ELSE @,
                          !.value = IF clustering.left = 1 THEN clusters ELSE @]

\* None.update(...) raises AttributeError.
NoneUpdated ==
    /\ ret' = [ret EXCEPT !.raised = "AttributeError"]
    /\ UNCHANGED clustering

\* find_clusters_random / find_clusters_greedy up to their loop: every book
\* in its own cluster, in an order of the set get_all_vertices() returns, and
\* range(0, len(clusters) - num_clusters) iterations to make.
FindClusters(op, num_clusters, order) ==
    /\ Loading
    /\ graphType = "WeightedGraph"
    /\ LET clusters == [i \in DOMAIN order |-> {order[i]}]
           left == Max(0, Len(clusters) - num_clusters)
       IN  /\ clustering' = [num_clusters |-> num_clusters, clusters |-> clusters,
                             left |-> left, merges |-> 0]
           /\ ret' = Call(op, num_clusters, 0, 0,
                          IF left = 0 THEN Returned(clusters) ELSE Pending)
    /\ UNCHANGED <<graphType, vertices>>

\* One iteration of the loop of find_clusters_random, c1 = random.choice(clusters)
MergeRandom(c1) ==
    /\ ret.op = "find_clusters_random" /\ ret.raised = "pending"
    /\ LET best_c2 == BestRandom(vertices, clustering.clusters, c1, 1, MinusOne, None)
       IN  IF best_c2 = None
           THEN NoneUpdated
           ELSE Iterated(Merge(clustering.clusters, c1, best_c2))
    /\ UNCHANGED <<graphType, vertices>>

\* One iteration of the loop of find_clusters_greedy
MergeGreedy ==
    /\ ret.op = "find_clusters_greedy" /\ ret.raised = "pending"
    /\ LET b == BestGreedy(vertices, clustering.clusters, 1, 2, MinusOne, None, None)
       IN  IF b[2] = None
           THEN NoneUpdated
           ELSE Iterated(Merge(clustering.clusters, b[1], b[2]))
    /\ UNCHANGED <<graphType, vertices>>

NumClusters == 0..(NumItems + 1)

NextCluster ==
    \/ BuildBookGraph
    \/ \E op \in ClusteringOps, num_clusters \in NumClusters,
          order \in Orders(AllItems(vertices)) : FindClusters(op, num_clusters, order)
    \/ \E c1 \in 1..Len(clustering.clusters) : MergeRandom(c1)
    \/ MergeGreedy

SpecCluster == Init /\ [][NextCluster]_vars

\* The loop of a function that has been called runs on.
SpecClusterLive ==
    SpecCluster
        /\ WF_vars(MergeGreedy)
        /\ WF_vars(\E c1 \in 1..Len(clustering.clusters) : MergeRandom(c1))

Clustered == ret.op \in ClusteringOps

\* The clusters list of the call, N the number of vertices of the graph
MergesSoFar ==
    /\ clustering.merges + clustering.left = Max(0, Len(vertices) - clustering.num_clusters)
    /\ Len(clustering.clusters) = Len(vertices) - clustering.merges

ClustersReturned ==
    /\ ret.raised = "none"
    /\ ret.value = clustering.clusters
    /\ clustering.left = 0
    /\ Len(ret.value) = IF clustering.num_clusters <= Len(vertices)
                        THEN clustering.num_clusters ELSE Len(vertices)
    /\ clustering.num_clusters >= Len(vertices) =>
           /\ clustering.merges = 0
           /\ \A i \in 1..Len(ret.value) : Cardinality(ret.value[i]) = 1
           /\ {ret.value[i] : i \in 1..Len(ret.value)} = {{b} : b \in AllItems(vertices)}
    /\ clustering.num_clusters = 1 /\ Len(vertices) >= 1 =>
           ret.value = <<AllItems(vertices)>>

\* C8: for a book graph of N vertices and num_clusters >= 1, a call of
\* find_clusters_greedy or find_clusters_random, whatever random.choice
\* picks, has made merges so far that each took one cluster off the list, and
\* it returns, after max(0, N - num_clusters) merges, min(num_clusters, N)
\* clusters: the N singletons when num_clusters >= N, and one cluster of all
\* the books when num_clusters = 1.
ClusteringMergesDownToNumClusters ==
    /\ []((Clustered /\ clustering.num_clusters >= 1) =>
              /\ MergesSoFar
              /\ ret.raised \in {"pending", "none"}
              /\ ret.raised = "none" => ClustersReturned)
    /\ (Clustered /\ clustering.num_clusters >= 1) ~> (Clustered /\ ClustersReturned)

\* A call has merged three books, two of them joined by an edge, down to one
\* cluster.
ClusteringWitness ==
    /\ Clustered /\ ret.raised = "none"
    /\ Len(vertices) = 3
    /\ clustering.num_clusters = 1
    /\ clustering.merges = 2
    /\ \E a, b \in AllItems(vertices) :
           a # b /\ VertexOf(vertices, a).neighbours = (b :> MaxWeight)

\* The clusters list is a partition of the vertices of the graph.
ClustersPartition ==
    LET cl == clustering.clusters
    IN  /\ \A i \in 1..Len(cl) : cl[i] # {}
        /\ \A i, j \in 1..Len(cl) : i # j => cl[i] \cap cl[j] = {}
        /\ UNION {cl[i] : i \in 1..Len(cl)} = AllItems(vertices)

\* The list new is the list old with the cluster at c1 taken out and its
\* books added to the cluster at c2.
MergedInto(old, new, c1, c2) ==
    /\ c1 # c2
    /\ Len(new) = Len(old) - 1
    /\ \A k \in 1..Len(new) :
           LET from == IF k < c1 THEN k ELSE k + 1
           IN  new[k] = IF from = c2 THEN old[c2] \cup old[c1] ELSE old[from]

\* C11: in find_clusters_greedy and find_clusters_random, before the first
\* merge and after every merge, the clusters are non-empty, pairwise disjoint
\* and cover exactly the vertices of the graph, and a merge removes from the
\* list exactly the cluster whose books it added to the other one.
ClustersStayPartition ==
    /\ [](Clustered => ClustersPartition)
    /\ [][(Clustered /\ clustering'.merges = clustering.merges + 1) =>
              \E c1, c2 \in 1..Len(clustering.clusters) :
                  MergedInto(clustering.clusters, clustering'.clusters, c1, c2)]_vars

\* find_clusters_greedy has merged one of three books into another and has a
\* merge left to make.
PartitionWitness ==
    /\ ret.op = "find_clusters_greedy" /\ ret.raised = "pending"
    /\ Len(vertices) = 3
    /\ clustering.merges = 1
    /\ Len(clustering.clusters) = 2
    /\ \E i \in 1..2 : Cardinality(clustering.clusters[i]) = 2
    /\ \E a \in AllItems(vertices) : Degree(VertexOf(vertices, a)) = 2

\* --------------------------------------- Prediction from similar users
\* The sum of two fractions
RatAdd(a, b) == <<a[1] * b[2] + b[1] * a[2], a[2] * b[2]>>

\* The sum over the reviewers r in S of similarity(r, user)
RECURSIVE SumOfSimilarity(_, _, _)
SumOfSimilarity(st, user, S) ==
    IF S = {} THEN <<0, 1>>
    ELSE LET r == CHOOSE x \in S : TRUE
             sim == get_similarity_score(vertices, "WeightedGraph", r, user, st).value
         IN  RatAdd(sim, SumOfSimilarity(st, user, S \ {r}))

\* The sum over the reviewers r in S of weight(r, book) * similarity(r, user)
RECURSIVE SumOfWeightedSimilarity(_, _, _, _)
SumOfWeightedSimilarity(st, user, book, S) ==
    IF S = {} THEN <<0, 1>>
    ELSE LET r == CHOOSE x \in S : TRUE
             sim == get_similarity_score(vertices, "WeightedGraph", r, user, st).value
             w == VertexOf(vertices, book).neighbours[r]
         IN  RatAdd(<<w * sim[1], sim[2]>>,
                    SumOfWeightedSimilarity(st, user, book, S \ {r}))

\* v is the integer nearest to n / d, the even one of the two when n / d is
\* half way between them (n >= 0, d > 0).
Nearest(v, n, d) ==
    /\ 2 * n - d <= 2 * v * d
    /\ 2 * v * d <= 2 * n + d
    /\ (2 * v * d = 2 * n - d \/ 2 * v * d = 2 * n + d) => v % 2 = 0

\* The last call is a SimilarUserPredictor's, for a user and a book of the
\* graph with no edge between them, the book with a reviewer.
SimilarUserCase ==
    /\ ret.op = "predict_review_score"
    /\ ret.a3[1] = "SimilarUserPredictor"
    /\ HasVertex(vertices, ret.a1) /\ HasVertex(vertices, ret.a2)
    /\ ~adjacent(vertices, ret.a1, ret.a2)
    /\ DOMAIN VertexOf(vertices, ret.a2).neighbours # {}

AllWeightsPositive ==
    \A i \in 1..Len(vertices) :
        \A k \in DOMAIN vertices[i].neighbours : vertices[i].neighbours[k] >= 1

====
